---- MODULE Spec2Model ----
(***************************************************************************)
(* Model of the metrics package of fly-psyche: the time throttle           *)
(* OncePerDur, the delta gate OncePerDelta, gauges and the registry.       *)
(***************************************************************************)
EXTENDS Integers, Sequences, FiniteSets, TLC

(* ----------------------------- bounds --------------------------------- *)
MaxDur == 2
MaxTime == 4
MaxDo == 3
MaxReset == 2

(* ------------------------- throttle state ------------------------------ *)
VARIABLES
  now,        \* the wall clock read by time.Now()
  op,         \* the OncePerDur struct: dur, last, timer, pending, isRunning
  handlers,   \* goroutines started by the fired timer, waiting for op.mu
  runners,    \* goroutines inside runner(): [f, pc]
  nDo,        \* number of Do calls made; call k passes callback k
  nReset,     \* number of Reset calls made
  begun,      \* begun[k]: how many times callback k started executing
  overwritten,\* callbacks replaced in the pending slot by a later Do
  dropped,    \* callbacks removed from the pending slot by Reset
  notBefore,  \* notBefore[k]: last+dur seen by the Do that deferred k, else 0
  doTime,     \* doTime[k]: clock value at the k-th Do
  prompt,     \* FALSE once the clock advanced while work was outstanding
  resetSinceDo, \* TRUE when a Reset came after the latest Do
  racedDrop   \* callbacks Reset removed while a fired timer handler waited

tvars == <<op, handlers, runners, nDo, nReset, begun, overwritten,
           dropped, notBefore, doTime, prompt, resetSinceDo, racedDrop>>

(* ------------------------ delta gate state ----------------------------- *)
VARIABLES
  opd,        \* the OncePerDelta struct: delta, lastVal
  dcall       \* the latest OncePerDelta.Do: val, lastVal before, whether fn
              \* ran, lastVal when fn started

dvars == <<opd, dcall>>

(* -------------------- gauge and registry state ------------------------- *)
VARIABLES
  gauges,        \* m.gauges: the registered gauges, in registration order
  edges,         \* m.edges: scope -> channel currently registered
  chans,         \* every channel ever attached, with its servePoller loop
  gaugesMu,      \* 0, or the channel whose poll dump holds m.gaugesMu
  cancelled,     \* m.ctx has been cancelled by Close()
  panicked,      \* a goroutine panicked: the process is gone
  adders,        \* the threads calling Gauge.Add: pc, gauge, captured val
  timerHandlers, \* per gauge: fired timer handlers waiting for the lock
  pubRunners,    \* goroutines in runner() of some gauge's throttle
  nAdd,          \* number of Add calls made
  nMsg,          \* number of messages received by the receive loops
  lastPub,       \* per gauge: the value of its latest delivered publication
  touched,       \* gauges that had a non-zero Add
  nEnv           \* number of calls and events from outside so far

mvars == <<gauges, edges, chans, gaugesMu, cancelled, panicked, adders,
           timerHandlers, pubRunners, nAdd, nMsg, lastPub, touched, nEnv>>

(* ------------- wrappers around the gauges, lock bookkeeping ------------ *)
VARIABLES
  reqs,          \* the requests inside the InFlightMiddleware handler
  held,          \* locks that were held by a thread across a Pub call or
                 \* across a gate or throttle callback
  accept         \* the latest metricsListener.Accept call and its outcome

wvars == <<reqs, held, accept>>

vars == <<now, tvars, dvars, mvars, wvars>>

Nil == <<>>

\* a *time.Timer: never created, armed for an instant, or fired/stopped
NoTimer == [created |-> FALSE, armed |-> FALSE, when |-> 0]

\* time.AfterFunc(d, f): a new timer that fires d after now
AfterFunc(t, d) == [created |-> TRUE, armed |-> TRUE, when |-> t + d]

\* (*time.Timer).Reset(d): re-arm for d after now
TimerReset(timer, t, d) == [timer EXCEPT !.armed = TRUE, !.when = t + d]

\* (*time.Timer).Stop(): prevent the timer from firing; a handler that
\* already started is not waited for
TimerStop(timer) == [timer EXCEPT !.armed = FALSE, !.when = 0]

NewOncePerDur(dur) ==
  [dur |-> dur, last |-> 0, timer |-> NoTimer, pending |-> Nil,
   isRunning |-> FALSE]

\* the duration handed to time.AfterFunc when the timer is first created
FirstDelay(t, next) == t - next

\* the duration handed to timer.Reset when the timer is re-armed
RearmDelay(o) == o.dur

\* Do that keeps the callback already pending instead of replacing it
OncePerDur_Do_KeepsOld(o, f, t) ==
  IF o.pending # Nil
  THEN [op |-> o, go |-> Nil]
  ELSE IF o.isRunning
  THEN [op |-> [o EXCEPT !.pending = <<f>>], go |-> Nil]
  ELSE LET next == o.last + o.dur IN
       IF t < next
       THEN [op |-> [o EXCEPT !.pending = <<f>>,
                              !.timer = IF ~o.timer.created
                                        THEN AfterFunc(t, t - next)
                                        ELSE TimerReset(o.timer, t, o.dur)],
             go |-> Nil]
       ELSE [op |-> [o EXCEPT !.last = t, !.isRunning = TRUE], go |-> <<f>>]

\* the critical section of Do; go is <<f>> when Do starts runner(f)
OncePerDur_Do(o, f, t) ==
  IF o.pending # Nil \/ o.isRunning
  THEN [op |-> [o EXCEPT !.pending = <<f>>], go |-> Nil]
  ELSE LET next == o.last + o.dur IN
       IF t < next
       THEN [op |-> [o EXCEPT !.pending = <<f>>,
                              !.timer = IF ~o.timer.created
                                        THEN AfterFunc(t, FirstDelay(t, next))
                                        ELSE TimerReset(o.timer, t,
                                                        RearmDelay(o))],
             go |-> Nil]
       ELSE [op |-> [o EXCEPT !.last = t, !.isRunning = TRUE], go |-> <<f>>]

\* Reset that forgets to clear the pending slot
OncePerDur_Reset_KeepsPending(o, t) ==
  [o EXCEPT !.timer = IF o.timer.created THEN TimerStop(o.timer) ELSE o.timer,
            !.last = t]

OncePerDur_Reset(o, t) ==
  [o EXCEPT !.timer = IF o.timer.created THEN TimerStop(o.timer) ELSE o.timer,
            !.pending = Nil,
            !.last = t]

\* runner that runs the pending callback without clearing the slot
runnerLoop_KeepsPending(o, t) ==
  IF o.pending = Nil
  THEN [op |-> [o EXCEPT !.isRunning = FALSE], go |-> Nil]
  ELSE [op |-> [o EXCEPT !.last = t], go |-> o.pending]

\* runner that returns after the first callback without looping
runnerLoop_NoLoop(o, t) ==
  [op |-> [o EXCEPT !.isRunning = FALSE], go |-> Nil]

\* the locked part of one iteration of runner's loop
runnerLoop(o, t) ==
  IF o.pending = Nil
  THEN [op |-> [o EXCEPT !.isRunning = FALSE], go |-> Nil]
  ELSE [op |-> [o EXCEPT !.last = t, !.pending = Nil], go |-> o.pending]

\* the locked part of handleTimer
handleTimerLocked(o, t) ==
  IF o.pending = Nil
  THEN [op |-> o, go |-> Nil]
  ELSE [op |-> [o EXCEPT !.last = t, !.pending = Nil, !.isRunning = TRUE],
        go |-> o.pending]

\* the runtime fires an armed timer whose instant has come
TimerDue(o, t) == o.timer.armed /\ t >= o.timer.when

Fired(timer) == [timer EXCEPT !.armed = FALSE, !.when = 0]

Executing == {r \in runners : r.pc = "exec"}

Outstanding == handlers > 0 \/ runners # {} \/ TimerDue(op, now)

(* --------------------------- int64 arithmetic -------------------------- *)
\* An int64 is its 64-bit two's complement pattern, four 16-bit limbs,
\* most significant first.
Limb == 65536
SignBit == 32768

Zero64 == <<0, 0, 0, 0>>
MaxInt64 == <<SignBit - 1, Limb - 1, Limb - 1, Limb - 1>>
MinInt64 == <<SignBit, 0, 0, 0>>

\* the int64 of a small integer n, -SignBit < n < SignBit
I64(n) == IF n >= 0 THEN <<0, 0, 0, n>>
          ELSE <<Limb - 1, Limb - 1, Limb - 1, Limb + n>>

\* a - b modulo 2^64 (Go's wrapping int64 subtraction)
Sub64(a, b) ==
  LET d4 == a[4] - b[4]
      w4 == IF d4 < 0 THEN 1 ELSE 0
      d3 == a[3] - b[3] - w4
      w3 == IF d3 < 0 THEN 1 ELSE 0
      d2 == a[2] - b[2] - w3
      w2 == IF d2 < 0 THEN 1 ELSE 0
      d1 == a[1] - b[1] - w2
  IN <<d1 % Limb, d2 % Limb, d3 % Limb, d4 % Limb>>

\* a + b modulo 2^64 (atomic.AddInt64)
Add64(a, b) ==
  LET s4 == a[4] + b[4]
      c4 == s4 \div Limb
      s3 == a[3] + b[3] + c4
      c3 == s3 \div Limb
      s2 == a[2] + b[2] + c3
      c2 == s2 \div Limb
      s1 == a[1] + b[1] + c2
  IN <<s1 % Limb, s2 % Limb, s3 % Limb, s4 % Limb>>

\* -a modulo 2^64 (Go's wrapping negation: -MinInt64 = MinInt64)
Neg64(a) == Sub64(Zero64, a)

IsNeg64(a) == a[1] >= SignBit

\* the bit patterns compared as unsigned numbers
ULess64(a, b) ==
  \E i \in 1..4 : a[i] < b[i] /\ \A j \in 1..(i - 1) : a[j] = b[j]

\* Go's signed a < b
Less64(a, b) ==
  IF IsNeg64(a) # IsNeg64(b) THEN IsNeg64(a) ELSE ULess64(a, b)

\* |a - b| of the two integers, exact: it lies in 0 .. 2^64-1 and is
\* returned as an unsigned 64-bit pattern
AbsDiff(a, b) == IF Less64(a, b) THEN Sub64(b, a) ELSE Sub64(a, b)

(* ------------------------------ delta gate ----------------------------- *)
NewOncePerDelta(delta) == [delta |-> delta, lastVal |-> Zero64]

\* the absolute difference as Do computes it
DoDiff(val, lastVal) ==
  LET diff == Sub64(val, lastVal)
  IN IF Less64(diff, Zero64) THEN Neg64(diff) ELSE diff

\* the locked part of OncePerDelta.Do; fn runs after it iff allow
OncePerDelta_Do(g, val) ==
  IF Less64(DoDiff(val, g.lastVal), g.delta)
  THEN [opd |-> g, allow |-> FALSE]
  ELSE [opd |-> [g EXCEPT !.lastVal = val], allow |-> TRUE]

OncePerDelta_Reset(g, val) == [g EXCEPT !.lastVal = val]


NoCall == [made |-> FALSE, val |-> Zero64, before |-> Zero64,
           fired |-> FALSE, atStart |-> Zero64]

InitThrottleIdle ==
  /\ op = NewOncePerDur(1)
  /\ handlers = 0
  /\ runners = {}
  /\ nDo = 0
  /\ nReset = 0
  /\ begun = [k \in 1..MaxDo |-> 0]
  /\ overwritten = {}
  /\ dropped = {}
  /\ notBefore = [k \in 1..MaxDo |-> 0]
  /\ doTime = [k \in 1..MaxDo |-> 0]
  /\ prompt = TRUE
  /\ resetSinceDo = FALSE
  /\ racedDrop = {}

InitDeltaIdle ==
  /\ opd = NewOncePerDelta(Zero64)
  /\ dcall = NoCall

(* --------------------------- gauges, registry -------------------------- *)
MaxThreads == 2
MaxAdd == 1
MaxMTime == 1
MaxGauges == 2
MaxChans == 2
MaxMsg == 2
MaxEnv == 5

Threads == 1..MaxThreads
Scopes == {"A", "B"}
Names == <<"g1", "g2", "g3">>
AddDeltas == {-1, 0, 2}
GaugeDeltas == {Zero64, I64(2)}

\* the gauges the registry is asked for: a global one that publishes every
\* change, and one of scope "B" with delta threshold 2
GaugeKinds ==
  {[delta |-> Zero64, raddr |-> ""], [delta |-> I64(2), raddr |-> "B"]}
Payloads == {"POLL", "poll", "PING"}

\* bytes.ToUpper on the payloads above
ToUpper(payload) == IF payload = "poll" THEN "POLL" ELSE payload

\* the Gauge struct built by NewGauge
NewGaugeRec(name, dur, delta, raddr) ==
  [name |-> name, val |-> Zero64, raddr |-> raddr,
   oncePerDur |-> NewOncePerDur(dur),
   oncePerDelta |-> NewOncePerDelta(delta)]

\* Gauge.StringWithVal: "name=value"; nl tells whether a newline follows
StringWithVal(g, val, nl) == [name |-> g.name, val |-> val, nl |-> nl]

\* a channel and the servePoller goroutine started for it by Attach
NewChan(scope) ==
  [scope |-> scope, closed |-> FALSE, pc |-> "recv", i |-> 0,
   val |-> Zero64, b |-> <<>>, polls |-> 0, dumps |-> 0, dumpTo |-> 0,
   dump |-> <<>>, ng |-> 0, adds |-> 0, got |-> 0]

IdleAdder == [pc |-> "idle", g |-> 0, val |-> Zero64, id |-> 0]

\* Metrics.pub without the scope test: every payload goes to every channel
PubTargets_Broadcast(e, raddr) == {e[x] : x \in DOMAIN e}

\* Metrics.pub: the channels a payload for scope raddr is handed to
PubTargets(e, raddr) ==
  IF raddr # ""
  THEN IF raddr \in DOMAIN e THEN {e[raddr]} ELSE {}
  ELSE {e[x] : x \in DOMAIN e}

\* hand a payload to a set of channels
Deliver(cs, to) ==
  [c \in DOMAIN cs |->
     IF c \in to THEN [cs[c] EXCEPT !.got = @ + 1] ELSE cs[c]]

NoEdges == [x \in {} |-> 0]

\* the locks the calling thread holds at a call site
\* Metrics.pub: edgesMu is locked on entry and released by the deferred
\* Unlock, after e.Pub has returned
LocksAtPub == {"edgesMu"}
\* pubMetrics: gaugesMu is released before, edgesMu is held around Pub
LocksAtPollPub == {"edgesMu"}
\* OncePerDelta.Do: opd.mu is released before fn() is called
LocksAtDeltaCallback == {}
\* OncePerDur.runner: op.mu is released before f() is called
LocksAtThrottleCallback == {}

\* no request, no lock seen across a call, no Accept made yet
NoAccept == [made |-> FALSE, failed |-> FALSE, panicked |-> FALSE,
             factory |-> 0, before |-> 0, pc |-> "idle", raddr |-> ""]

InitWrappersIdle ==
  /\ reqs = <<>>
  /\ held = {}
  /\ accept = NoAccept

\* the registry after New(), with one thread that will call Add
InitMetricsIdle ==
  /\ gauges = <<>>
  /\ edges = NoEdges
  /\ chans = <<>>
  /\ gaugesMu = 0
  /\ cancelled = FALSE
  /\ panicked = FALSE
  /\ adders = [t \in {1} |-> IdleAdder]
  /\ timerHandlers = <<>>
  /\ pubRunners = {}
  /\ nAdd = 0
  /\ nMsg = 0
  /\ lastPub = <<>>
  /\ touched = {}
  /\ nEnv = 0
  /\ InitWrappersIdle

\* Gauge.Add up to the atomic add; Add(0) returns at once
Add(t, i, n) ==
  /\ ~panicked
  /\ nEnv < MaxEnv
  /\ nEnv' = nEnv + 1
  /\ adders[t].pc = "idle"
  /\ nAdd < MaxAdd * Cardinality(DOMAIN adders)
  /\ nAdd' = nAdd + 1
  /\ IF n = 0
     THEN UNCHANGED <<gauges, adders, touched>>
     ELSE LET val == Add64(gauges[i].val, I64(n))
          IN /\ gauges' = [gauges EXCEPT ![i].val = val]
             /\ adders' = [adders EXCEPT
                             ![t] = [pc |-> "gate", g |-> i, val |-> val,
                                     id |-> nAdd + 1]]
             /\ touched' = touched \cup {i}
  /\ UNCHANGED <<now, tvars, dvars, wvars, edges, chans, gaugesMu, cancelled,
                 panicked, timerHandlers, pubRunners, nMsg, lastPub>>

\* Add with the gate's verdict ignored: the throttle is offered every value
AddGate_Always(t) ==
  /\ ~panicked
  /\ adders[t].pc = "gate"
  /\ LET i == adders[t].g
         res == OncePerDelta_Do(gauges[i].oncePerDelta, adders[t].val)
     IN /\ gauges' = [gauges EXCEPT ![i].oncePerDelta = res.opd]
        /\ adders' = [adders EXCEPT ![t] = [@ EXCEPT !.pc = "throttle"]]
        /\ held' = held \cup LocksAtDeltaCallback
  /\ UNCHANGED <<now, tvars, dvars, reqs, accept, edges, chans, gaugesMu,
                 cancelled, panicked, timerHandlers, pubRunners, nAdd, nMsg,
                 lastPub, touched, nEnv>>

\* Add: g.oncePerDelta.Do(val, ...)
AddGate(t) ==
  /\ ~panicked
  /\ adders[t].pc = "gate"
  /\ LET i == adders[t].g
         res == OncePerDelta_Do(gauges[i].oncePerDelta, adders[t].val)
     IN /\ gauges' = [gauges EXCEPT ![i].oncePerDelta = res.opd]
        /\ adders' = [adders EXCEPT
                        ![t] = IF res.allow THEN [@ EXCEPT !.pc = "throttle"]
                               ELSE IdleAdder]
        /\ held' = IF res.allow THEN held \cup LocksAtDeltaCallback ELSE held
  /\ UNCHANGED <<now, tvars, dvars, reqs, accept, edges, chans, gaugesMu,
                 cancelled, panicked, timerHandlers, pubRunners, nAdd, nMsg,
                 lastPub, touched, nEnv>>

\* Add: the gate's callback calls g.oncePerDur.Do(func() { g.pub(val) })
AddThrottle(t) ==
  /\ ~panicked
  /\ adders[t].pc = "throttle"
  /\ LET i == adders[t].g
         f == [id |-> adders[t].id, val |-> adders[t].val]
         res == OncePerDur_Do(gauges[i].oncePerDur, f, now)
     IN /\ gauges' = [gauges EXCEPT ![i].oncePerDur = res.op]
        /\ pubRunners' = IF res.go = Nil THEN pubRunners
                         ELSE pubRunners \cup
                              {[g |-> i, f |-> res.go[1], pc |-> "ready"]}
  /\ adders' = [adders EXCEPT ![t] = IdleAdder]
  /\ UNCHANGED <<now, tvars, dvars, wvars, edges, chans, gaugesMu, cancelled,
                 panicked, timerHandlers, nAdd, nMsg, lastPub, touched, nEnv>>

\* the runtime fires the armed timer of gauge i
GaugeTimerFire(i) ==
  /\ ~panicked
  /\ TimerDue(gauges[i].oncePerDur, now)
  /\ gauges' = [gauges EXCEPT
                  ![i].oncePerDur.timer = Fired(gauges[i].oncePerDur.timer)]
  /\ timerHandlers' = [timerHandlers EXCEPT ![i] = @ + 1]
  /\ UNCHANGED <<now, tvars, dvars, wvars, edges, chans, gaugesMu, cancelled,
                 panicked, adders, pubRunners, nAdd, nMsg, lastPub, touched,
                 nEnv>>

\* handleTimer of gauge i's throttle
GaugeHandleTimer(i) ==
  /\ ~panicked
  /\ timerHandlers[i] > 0
  /\ LET res == handleTimerLocked(gauges[i].oncePerDur, now)
     IN /\ gauges' = [gauges EXCEPT ![i].oncePerDur = res.op]
        /\ pubRunners' = IF res.go = Nil THEN pubRunners
                         ELSE pubRunners \cup
                              {[g |-> i, f |-> res.go[1], pc |-> "ready"]}
  /\ timerHandlers' = [timerHandlers EXCEPT ![i] = @ - 1]
  /\ UNCHANGED <<now, tvars, dvars, wvars, edges, chans, gaugesMu, cancelled,
                 panicked, adders, nAdd, nMsg, lastPub, touched, nEnv>>

\* a runner calls the callback: g.pub(val) is entered
PubBegin(r) ==
  /\ ~panicked
  /\ r.pc = "ready"
  /\ pubRunners' = (pubRunners \ {r}) \cup {[r EXCEPT !.pc = "exec"]}
  /\ held' = held \cup LocksAtThrottleCallback
  /\ UNCHANGED <<now, tvars, dvars, reqs, accept, gauges, edges, chans,
                 gaugesMu, cancelled, panicked, adders, timerHandlers, nAdd,
                 nMsg, lastPub, touched, nEnv>>

\* Gauge.pub -> Metrics.pub under edgesMu, then the callback returns
GaugePub(r) ==
  /\ ~panicked
  /\ r.pc = "exec"
  /\ LET g == gauges[r.g]
         to == PubTargets(edges, g.raddr)
     IN /\ chans' = Deliver(chans, to)
        /\ lastPub' = IF to = {} THEN lastPub
                      ELSE [lastPub EXCEPT
                              ![r.g] = <<StringWithVal(g, r.f.val, FALSE)>>]
        /\ held' = IF to = {} THEN held ELSE held \cup LocksAtPub
  /\ pubRunners' = (pubRunners \ {r}) \cup {[r EXCEPT !.pc = "loop"]}
  /\ UNCHANGED <<now, tvars, dvars, reqs, accept, gauges, edges, gaugesMu,
                 cancelled, panicked, adders, timerHandlers, nAdd, nMsg,
                 touched, nEnv>>

\* the runner of a gauge's throttle takes the lock after a callback
GaugeRunner(r) ==
  /\ ~panicked
  /\ r.pc = "loop"
  /\ LET res == runnerLoop(gauges[r.g].oncePerDur, now)
     IN /\ gauges' = [gauges EXCEPT ![r.g].oncePerDur = res.op]
        /\ pubRunners' = IF res.go = Nil THEN pubRunners \ {r}
                         ELSE (pubRunners \ {r}) \cup
                              {[g |-> r.g, f |-> res.go[1], pc |-> "ready"]}
  /\ UNCHANGED <<now, tvars, dvars, wvars, edges, chans, gaugesMu, cancelled,
                 panicked, adders, timerHandlers, nAdd, nMsg, lastPub,
                 touched, nEnv>>

ClockTick ==
  /\ ~panicked
  /\ nEnv < MaxEnv
  /\ nEnv' = nEnv + 1
  /\ now < MaxMTime + MaxDur
  /\ now' = now + 1
  /\ UNCHANGED <<tvars, dvars, wvars, gauges, edges, chans, gaugesMu, cancelled,
                 panicked, adders, timerHandlers, pubRunners, nAdd, nMsg,
                 lastPub, touched>>

\* one gauge, registered, with a channel attached under scope "A": the
\* state after one NewGauge and one Attach
InitGauge ==
  /\ now = MaxDur
  /\ InitThrottleIdle
  /\ InitDeltaIdle
  /\ \E d \in 1..MaxDur : \E T \in GaugeDeltas : \E raddr \in {"", "A"} :
       gauges = <<NewGaugeRec(Names[1], d, T, raddr)>>
  /\ edges = [x \in {"A"} |-> 1]
  /\ chans = <<NewChan("A")>>
  /\ gaugesMu = 0
  /\ cancelled = FALSE
  /\ panicked = FALSE
  /\ adders = [t \in Threads |-> IdleAdder]
  /\ timerHandlers = <<0>>
  /\ pubRunners = {}
  /\ nAdd = 0
  /\ nMsg = 0
  /\ lastPub = <<Nil>>
  /\ touched = {}
  /\ nEnv = 2
  /\ InitWrappersIdle

GaugeStep ==
  \/ \E t \in DOMAIN adders : \E i \in DOMAIN gauges : \E n \in AddDeltas :
       Add(t, i, n)
  \/ \E t \in DOMAIN adders : AddGate(t)
  \/ \E t \in DOMAIN adders : AddThrottle(t)
  \/ \E i \in DOMAIN gauges : GaugeTimerFire(i)
  \/ \E i \in DOMAIN gauges : GaugeHandleTimer(i)
  \/ \E r \in pubRunners : PubBegin(r)
  \/ \E r \in pubRunners : GaugePub(r)
  \/ \E r \in pubRunners : GaugeRunner(r)
  \/ ClockTick

SpecGauge == InitGauge /\ [][GaugeStep]_vars

(* ----------------------------- registry -------------------------------- *)
\* Metrics.NewGauge: append under gaugesMu
NewGauge(dur, delta, raddr) ==
  /\ ~panicked
  /\ nEnv < MaxEnv
  /\ nEnv' = nEnv + 1
  /\ gaugesMu = 0
  /\ Len(gauges) < MaxGauges
  /\ gauges' = Append(gauges,
                      NewGaugeRec(Names[Len(gauges) + 1], dur, delta, raddr))
  /\ timerHandlers' = Append(timerHandlers, 0)
  /\ lastPub' = Append(lastPub, Nil)
  /\ UNCHANGED <<now, tvars, dvars, wvars, edges, chans, gaugesMu, cancelled,
                 panicked, adders, pubRunners, nAdd, nMsg, touched>>

\* Metrics.Attach: register the channel under the scope, start servePoller
Attach(scope) ==
  /\ ~panicked
  /\ nEnv < MaxEnv
  /\ nEnv' = nEnv + 1
  /\ Len(chans) < MaxChans
  /\ edges' = [x \in DOMAIN edges \cup {scope} |->
                 IF x = scope THEN Len(chans) + 1 ELSE edges[x]]
  /\ chans' = Append(chans, NewChan(scope))
  /\ UNCHANGED <<now, tvars, dvars, wvars, gauges, gaugesMu, cancelled,
                 panicked, adders, timerHandlers, pubRunners, nAdd, nMsg,
                 lastPub, touched>>

\* the channel is closed from outside (the connection ends)
CloseEdge(c) ==
  /\ ~panicked
  /\ nEnv < MaxEnv
  /\ nEnv' = nEnv + 1
  /\ ~chans[c].closed
  /\ chans' = [chans EXCEPT ![c].closed = TRUE]
  /\ UNCHANGED <<now, tvars, dvars, wvars, gauges, edges, gaugesMu, cancelled,
                 panicked, adders, timerHandlers, pubRunners, nAdd, nMsg,
                 lastPub, touched>>

\* Metrics.Close: cancel the context of every receive loop
Close ==
  /\ ~panicked
  /\ nEnv < MaxEnv
  /\ nEnv' = nEnv + 1
  /\ ~cancelled
  /\ cancelled' = TRUE
  /\ UNCHANGED <<now, tvars, dvars, wvars, gauges, edges, chans, gaugesMu,
                 panicked, adders, timerHandlers, pubRunners, nAdd, nMsg,
                 lastPub, touched>>

\* servePoller: ReadMsg returns a message; a POLL enters pubMetrics
Recv(c, payload) ==
  /\ ~panicked
  /\ nEnv < MaxEnv
  /\ nEnv' = nEnv + 1
  /\ chans[c].pc = "recv"
  /\ ~chans[c].closed /\ ~cancelled
  /\ nMsg < MaxMsg
  /\ nMsg' = nMsg + 1
  /\ chans' = IF ToUpper(payload) = "POLL"
              THEN [chans EXCEPT ![c].pc = "lock", ![c].polls = @ + 1,
                                 ![c].adds = nAdd]
              ELSE chans
  /\ UNCHANGED <<now, tvars, dvars, wvars, gauges, edges, gaugesMu, cancelled,
                 panicked, adders, timerHandlers, pubRunners, nAdd, lastPub,
                 touched>>

\* pubMetrics: m.gaugesMu.Lock() and the start of the loop over m.gauges
DumpLock(c) ==
  /\ ~panicked
  /\ chans[c].pc = "lock"
  /\ gaugesMu = 0
  /\ IF gauges = <<>>
     THEN /\ chans' = [chans EXCEPT ![c].pc = "publish", ![c].b = <<>>,
                                    ![c].ng = 0]
          /\ UNCHANGED gaugesMu
     ELSE /\ chans' = [chans EXCEPT ![c].pc = "val", ![c].b = <<>>,
                                    ![c].i = 1, ![c].ng = Len(gauges)]
          /\ gaugesMu' = c
  /\ UNCHANGED <<now, tvars, dvars, wvars, gauges, edges, cancelled, panicked,
                 adders, timerHandlers, pubRunners, nAdd, nMsg, lastPub,
                 touched, nEnv>>

\* whether pubMetrics(raddr) writes a line for gauge g
Dumped(g, raddr) == g.raddr = "" \/ g.raddr = raddr

\* pubMetrics loop body: val := g.Val() and the line for a visible gauge
DumpVal(c) ==
  /\ ~panicked
  /\ chans[c].pc = "val"
  /\ LET g == gauges[chans[c].i]
     IN chans' = [chans EXCEPT
                    ![c].pc = "treset",
                    ![c].val = g.val,
                    ![c].b = IF Dumped(g, chans[c].scope)
                             THEN Append(@, StringWithVal(g, g.val, TRUE))
                             ELSE @]
  /\ UNCHANGED <<now, tvars, dvars, wvars, gauges, edges, gaugesMu, cancelled,
                 panicked, adders, timerHandlers, pubRunners, nAdd, nMsg,
                 lastPub, touched, nEnv>>

\* pubMetrics loop body: g.oncePerDur.Reset()
DumpThrottleReset(c) ==
  /\ ~panicked
  /\ chans[c].pc = "treset"
  /\ gauges' = [gauges EXCEPT
                  ![chans[c].i].oncePerDur =
                     OncePerDur_Reset(gauges[chans[c].i].oncePerDur, now)]
  /\ chans' = [chans EXCEPT ![c].pc = "dreset"]
  /\ UNCHANGED <<now, tvars, dvars, wvars, edges, gaugesMu, cancelled, panicked,
                 adders, timerHandlers, pubRunners, nAdd, nMsg, lastPub,
                 touched, nEnv>>

\* pubMetrics loop body: g.oncePerDelta.Reset(val); next gauge or unlock
DumpDeltaReset(c) ==
  /\ ~panicked
  /\ chans[c].pc = "dreset"
  /\ gauges' = [gauges EXCEPT
                  ![chans[c].i].oncePerDelta =
                     OncePerDelta_Reset(gauges[chans[c].i].oncePerDelta,
                                        chans[c].val)]
  /\ IF chans[c].i < Len(gauges)
     THEN /\ chans' = [chans EXCEPT ![c].pc = "val", ![c].i = @ + 1]
          /\ UNCHANGED gaugesMu
     ELSE /\ chans' = [chans EXCEPT ![c].pc = "publish", ![c].i = 0]
          /\ gaugesMu' = 0
  /\ UNCHANGED <<now, tvars, dvars, wvars, edges, cancelled, panicked, adders,
                 timerHandlers, pubRunners, nAdd, nMsg, lastPub, touched, nEnv>>

\* the lines of a dump as the latest publication of the gauges they name
WithDump(lp, b) ==
  [i \in DOMAIN lp |->
     IF \E k \in DOMAIN b : b[k].name = Names[i]
     THEN <<b[CHOOSE k \in DOMAIN b : b[k].name = Names[i]]>>
     ELSE lp[i]]

\* pubMetrics: m.edges[raddr].Pub(...) under edgesMu; with no channel
\* registered under raddr the call is made on a nil interface and panics
PollPublish(c) ==
  /\ ~panicked
  /\ chans[c].pc = "publish"
  /\ LET raddr == chans[c].scope IN
     IF raddr \in DOMAIN edges
     THEN /\ chans' = [Deliver(chans, {edges[raddr]}) EXCEPT
                         ![c].pc = "recv", ![c].dumps = @ + 1,
                         ![c].dumpTo = edges[raddr], ![c].dump = chans[c].b]
          /\ lastPub' = WithDump(lastPub, chans[c].b)
          /\ held' = held \cup LocksAtPollPub
          /\ UNCHANGED panicked
     ELSE /\ chans' = [chans EXCEPT ![c].pc = "panic"]
          /\ panicked' = TRUE
          /\ UNCHANGED <<lastPub, held>>
  /\ UNCHANGED <<now, tvars, dvars, reqs, accept, gauges, edges, gaugesMu,
                 cancelled, adders, timerHandlers, pubRunners, nAdd, nMsg,
                 touched, nEnv>>

\* servePoller: ReadMsg returns false, the loop ends
LoopExit(c) ==
  /\ ~panicked
  /\ chans[c].pc = "recv"
  /\ chans[c].closed \/ cancelled
  /\ chans' = [chans EXCEPT ![c].pc = "detach"]
  /\ UNCHANGED <<now, tvars, dvars, wvars, gauges, edges, gaugesMu, cancelled,
                 panicked, adders, timerHandlers, pubRunners, nAdd, nMsg,
                 lastPub, touched, nEnv>>

\* Metrics.detach without the identity test: the entry of the scope goes
detach_Unchecked(c) ==
  /\ ~panicked
  /\ chans[c].pc = "detach"
  /\ edges' = [x \in DOMAIN edges \ {chans[c].scope} |-> edges[x]]
  /\ chans' = [chans EXCEPT ![c].pc = "close"]
  /\ UNCHANGED <<now, tvars, dvars, wvars, gauges, gaugesMu, cancelled,
                 panicked, adders, timerHandlers, pubRunners, nAdd, nMsg,
                 lastPub, touched, nEnv>>

\* Metrics.detach: delete the entry only if it is this channel
detach(c) ==
  /\ ~panicked
  /\ chans[c].pc = "detach"
  /\ LET raddr == chans[c].scope IN
     edges' = IF raddr \in DOMAIN edges /\ edges[raddr] = c
              THEN [x \in DOMAIN edges \ {raddr} |-> edges[x]]
              ELSE edges
  /\ chans' = [chans EXCEPT ![c].pc = "close"]
  /\ UNCHANGED <<now, tvars, dvars, wvars, gauges, gaugesMu, cancelled,
                 panicked, adders, timerHandlers, pubRunners, nAdd, nMsg,
                 lastPub, touched, nEnv>>

\* servePoller: the deferred edge.Close()
EdgeClose(c) ==
  /\ ~panicked
  /\ chans[c].pc = "close"
  /\ chans' = [chans EXCEPT ![c].pc = "done", ![c].closed = TRUE]
  /\ UNCHANGED <<now, tvars, dvars, wvars, gauges, edges, gaugesMu, cancelled,
                 panicked, adders, timerHandlers, pubRunners, nAdd, nMsg,
                 lastPub, touched, nEnv>>

InitMetrics ==
  /\ now = MaxDur
  /\ InitThrottleIdle
  /\ InitDeltaIdle
  /\ InitMetricsIdle

RegistryStep ==
  \/ \E k \in GaugeKinds : NewGauge(1, k.delta, k.raddr)
  \/ \E scope \in Scopes : Attach(scope)
  \/ \E c \in DOMAIN chans : CloseEdge(c)
  \/ Close
  \/ \E c \in DOMAIN chans : \E payload \in Payloads : Recv(c, payload)
  \/ \E c \in DOMAIN chans : DumpLock(c)
  \/ \E c \in DOMAIN chans : DumpVal(c)
  \/ \E c \in DOMAIN chans : DumpThrottleReset(c)
  \/ \E c \in DOMAIN chans : DumpDeltaReset(c)
  \/ \E c \in DOMAIN chans : PollPublish(c)
  \/ \E c \in DOMAIN chans : LoopExit(c)
  \/ \E c \in DOMAIN chans : detach(c)
  \/ \E c \in DOMAIN chans : EdgeClose(c)

NextMetrics == RegistryStep \/ GaugeStep

SpecMetrics == InitMetrics /\ [][NextMetrics]_vars

(* -------------------------- delta gate actions ------------------------- *)
\* sample values and thresholds the gate is driven with
Int64Samples ==
  {MinInt64, Add64(MinInt64, I64(1)), I64(-2), I64(-1), Zero64, I64(1),
   I64(2), Sub64(MaxInt64, I64(1)), MaxInt64}

Thresholds == {Zero64, I64(1), I64(2), I64(3), MaxInt64}

InitDelta ==
  /\ now = MaxDur
  /\ InitThrottleIdle
  /\ InitMetricsIdle
  /\ \E T \in Thresholds : opd = NewOncePerDelta(T)
  /\ dcall = NoCall

\* one call of OncePerDelta.Do(val, fn) by a single caller
DeltaDo ==
  /\ \E val \in Int64Samples :
       LET res == OncePerDelta_Do(opd, val)
       IN /\ opd' = res.opd
          /\ dcall' = [made |-> TRUE, val |-> val, before |-> opd.lastVal,
                       fired |-> res.allow, atStart |-> res.opd.lastVal]
  /\ UNCHANGED <<now, tvars, mvars, wvars>>

DeltaReset ==
  /\ \E val \in Int64Samples : opd' = OncePerDelta_Reset(opd, val)
  /\ dcall' = NoCall
  /\ UNCHANGED <<now, tvars, mvars, wvars>>

NextDelta ==
  \/ DeltaDo
  \/ DeltaReset

SpecDelta == InitDelta /\ [][NextDelta]_vars

(* ------------------------- throttle actions ---------------------------- *)
Init ==
  /\ now = MaxDur
  /\ \E d \in 0..MaxDur : op = NewOncePerDur(d)
  /\ handlers = 0
  /\ runners = {}
  /\ nDo = 0
  /\ nReset = 0
  /\ begun = [k \in 1..MaxDo |-> 0]
  /\ overwritten = {}
  /\ dropped = {}
  /\ notBefore = [k \in 1..MaxDo |-> 0]
  /\ doTime = [k \in 1..MaxDo |-> 0]
  /\ prompt = TRUE
  /\ resetSinceDo = FALSE
  /\ racedDrop = {}
  /\ InitDeltaIdle
  /\ InitMetricsIdle

Tick ==
  /\ UNCHANGED <<dvars, mvars, wvars>>
  /\ now < MaxTime + MaxDur
  /\ now' = now + 1
  /\ prompt' = (prompt /\ ~Outstanding)
  /\ UNCHANGED <<op, handlers, runners, nDo, nReset, begun, overwritten,
                 dropped, notBefore, doTime, resetSinceDo, racedDrop>>

Do ==
  /\ UNCHANGED <<dvars, mvars, wvars>>
  /\ nDo < MaxDo
  /\ now <= MaxTime
  /\ LET f == nDo + 1
         res == OncePerDur_Do(op, f, now)
         deferred == op.pending = Nil /\ ~op.isRunning /\ res.go = Nil
     IN /\ op' = res.op
        /\ runners' = IF res.go = Nil THEN runners
                      ELSE runners \cup {[f |-> res.go[1], pc |-> "ready"]}
        /\ nDo' = f
        /\ overwritten' = IF op.pending = Nil THEN overwritten
                          ELSE overwritten \cup {op.pending[1]}
        /\ notBefore' = IF deferred
                        THEN [notBefore EXCEPT ![f] = op.last + op.dur]
                        ELSE notBefore
        /\ doTime' = [doTime EXCEPT ![f] = now]
  /\ resetSinceDo' = FALSE
  /\ UNCHANGED <<now, handlers, nReset, begun, dropped, prompt, racedDrop>>

Reset ==
  /\ UNCHANGED <<dvars, mvars, wvars>>
  /\ nReset < MaxReset
  /\ now <= MaxTime
  /\ op' = OncePerDur_Reset(op, now)
  /\ nReset' = nReset + 1
  /\ dropped' = IF op.pending = Nil THEN dropped
                ELSE dropped \cup {op.pending[1]}
  /\ racedDrop' = IF op.pending # Nil /\ handlers > 0
                  THEN racedDrop \cup {op.pending[1]} ELSE racedDrop
  /\ resetSinceDo' = TRUE
  /\ UNCHANGED <<now, handlers, runners, nDo, begun, overwritten, notBefore,
                 doTime, prompt>>

TimerFire ==
  /\ UNCHANGED <<dvars, mvars, wvars>>
  /\ TimerDue(op, now)
  /\ op' = [op EXCEPT !.timer = Fired(op.timer)]
  /\ handlers' = handlers + 1
  /\ UNCHANGED <<now, runners, nDo, nReset, begun, overwritten, dropped,
                 notBefore, doTime, prompt, resetSinceDo, racedDrop>>

handleTimer ==
  /\ UNCHANGED <<dvars, mvars, wvars>>
  /\ handlers > 0
  /\ LET res == handleTimerLocked(op, now)
     IN /\ op' = res.op
        /\ runners' = IF res.go = Nil THEN runners
                      ELSE runners \cup {[f |-> res.go[1], pc |-> "ready"]}
  /\ handlers' = handlers - 1
  /\ UNCHANGED <<now, nDo, nReset, begun, overwritten, dropped, notBefore,
                 doTime, prompt, resetSinceDo, racedDrop>>

\* runner calls f()
Begin ==
  \E r \in runners :
    /\ UNCHANGED <<dvars, mvars, wvars>>
    /\ r.pc = "ready"
    /\ runners' = (runners \ {r}) \cup {[r EXCEPT !.pc = "exec"]}
    /\ begun' = [begun EXCEPT ![r.f] = @ + 1]
    /\ UNCHANGED <<now, op, handlers, nDo, nReset, overwritten, dropped,
                   notBefore, doTime, prompt, resetSinceDo, racedDrop>>

\* f() returns
Finish ==
  \E r \in runners :
    /\ UNCHANGED <<dvars, mvars, wvars>>
    /\ r.pc = "exec"
    /\ runners' = (runners \ {r}) \cup {[r EXCEPT !.pc = "loop"]}
    /\ UNCHANGED <<now, op, handlers, nDo, nReset, begun, overwritten,
                   dropped, notBefore, doTime, prompt, resetSinceDo,
                   racedDrop>>

\* runner takes the lock, then leaves or picks up the pending callback
runner ==
  \E r \in runners :
    /\ UNCHANGED <<dvars, mvars, wvars>>
    /\ r.pc = "loop"
    /\ LET res == runnerLoop(op, now)
       IN /\ op' = res.op
          /\ runners' = IF res.go = Nil THEN runners \ {r}
                        ELSE (runners \ {r}) \cup
                             {[f |-> res.go[1], pc |-> "ready"]}
    /\ UNCHANGED <<now, handlers, nDo, nReset, begun, overwritten, dropped,
                   notBefore, doTime, prompt, resetSinceDo, racedDrop>>

Next ==
  \/ Tick
  \/ Do
  \/ Reset
  \/ TimerFire
  \/ handleTimer
  \/ Begin
  \/ Finish
  \/ runner

Spec == Init /\ [][Next]_vars

FairSpec ==
  /\ Spec
  /\ WF_vars(Tick) /\ WF_vars(TimerFire) /\ WF_vars(handleTimer)
  /\ WF_vars(Begin) /\ WF_vars(Finish) /\ WF_vars(runner)

(* ------------------------------ claims --------------------------------- *)

Idle == runners = {} /\ handlers = 0 /\ ~op.timer.armed

Begins(k) == begun[k] = 0 /\ begun'[k] > 0

\* C1: at most one callback passed to the throttle is executing at any time.
AtMostOneExecuting == Cardinality(Executing) <= 1

\* C2: a callback that Do deferred (nothing pending, nothing running, window
\* not elapsed) does not begin executing before lastRunTime + window.
DeferredNotEarly ==
  [][\A k \in 1..MaxDo : Begins(k) => now >= notBefore[k]]_vars

\* C3 (order part): once the callback of the latest Do has begun, and no
\* Reset came after that Do, no callback of an earlier Do begins executing.
EarlierNeverAfterLast ==
  [][\A k \in 1..MaxDo :
       (Begins(k) /\ ~resetSinceDo /\ k < nDo) => begun[nDo] = 0]_vars

\* C3 (liveness part): the callback of the latest Do eventually executes,
\* unless a later Do or a Reset follows it.
LastDoEventuallyRuns ==
  \A k \in 1..MaxDo :
    (nDo = k /\ ~resetSinceDo) ~> (begun[k] > 0 \/ nDo > k \/ resetSinceDo)

\* C4: every callback executes at most once, and a callback overwritten in
\* the pending slot by a later Do never executes.
ExecutesAtMostOnce ==
  \A k \in 1..MaxDo :
    /\ begun[k] <= 1
    /\ k \in overwritten => begun[k] = 0

\* C4 witness: a callback was overwritten, its successor ran, throttle idle.
OverwrittenAndDrained ==
  /\ Idle
  /\ op.pending = Nil
  /\ \E k \in overwritten : \E j \in (k+1)..MaxDo : begun[j] = 1

\* C5 (original): of consecutive Do calls that fall within less than one
\* window, only the callback of the last one executes.
BurstRunsOnlyLast ==
  \A j \in 1..MaxDo : \A k \in 1..MaxDo :
    (j < k /\ k <= nDo /\ doTime[k] - doTime[j] < op.dur) => begun[j] = 0

\* C5 (amended): a burst yields at most one execution per call that found the
\* pending slot empty, and the pending slot always holds the callback of the
\* most recent Do, so what is taken from it is the last call's callback.
BurstCoalesces ==
  /\ Cardinality({k \in 1..MaxDo : begun[k] > 0})
       <= nDo - Cardinality(overwritten)
  /\ op.pending # Nil => op.pending[1] = nDo

\* C5 witness: three calls at one instant, the middle one coalesced away.
BurstOfThree ==
  /\ nDo = 3
  /\ doTime[1] = doTime[3]
  /\ overwritten = {2}
  /\ begun = <<1, 0, 1>>

\* C6 (original): with no Reset, of two consecutive Do calls more than one
\* window apart the first is not discarded by the second.
SeparatedCallsBothRun ==
  \A k \in 1..(MaxDo - 1) :
    (k < nDo /\ nReset = 0 /\ doTime[k+1] > doTime[k] + op.dur)
      => k \notin overwritten

\* C6 (amended): with no Reset, and callbacks, timer handler and runner done
\* before the clock advances, two consecutive Do calls more than one window
\* apart each get their own execution.
PromptSeparatedCallsBothRun ==
  \A k \in 1..(MaxDo - 1) :
    (k < nDo /\ nReset = 0 /\ prompt /\ doTime[k+1] > doTime[k] + op.dur)
      => /\ k \notin overwritten
         /\ begun[k] = 1
         /\ (Idle /\ (k+1) \notin overwritten) => begun[k+1] = 1

\* C6 witness: two separated calls, both executed.
SeparatedBothExecuted ==
  \E k \in 1..(MaxDo - 1) :
    /\ k < nDo /\ nReset = 0 /\ prompt
    /\ doTime[k+1] > doTime[k] + op.dur
    /\ notBefore[k] > 0
    /\ begun[k] = 1 /\ begun[k+1] = 1

\* C8: Reset runs nothing, empties the pending slot and sets lastRunTime to
\* the time of the Reset; a callback it removed never begins executing, even
\* when the timer had fired and its handler was waiting for the lock.
ResetDiscards ==
  /\ [](\A k \in dropped : begun[k] = 0)
  /\ [][nReset' # nReset =>
          /\ op'.pending = Nil
          /\ op'.last = now
          /\ begun' = begun
          /\ runners' = runners]_vars

\* C8 witness: Reset removed a callback while the handler waited; the
\* handler has run since and the throttle is idle.
RacedDropDrained ==
  /\ racedDrop # {}
  /\ Idle
  /\ \A k \in racedDrop : begun[k] = 0

\* C7: Do(v, cb) invokes cb iff abs(v - lastAllowed) >= T; when cb starts
\* lastAllowed equals v; when cb is not invoked lastAllowed is unchanged;
\* with T = 0 every Do invokes cb; for all int64 values.
DeltaGateContract ==
  dcall.made =>
    /\ dcall.fired <=> ~ULess64(AbsDiff(dcall.val, dcall.before), opd.delta)
    /\ dcall.fired => dcall.atStart = dcall.val
    /\ ~dcall.fired => opd.lastVal = dcall.before
    /\ opd.delta = Zero64 => dcall.fired

\* C7 on differences that fit in an int64: the gate decides as documented.
DeltaGateContractNoWrap ==
  (dcall.made /\ ULess64(AbsDiff(dcall.val, dcall.before), MinInt64)) =>
    /\ dcall.fired <=> ~ULess64(AbsDiff(dcall.val, dcall.before), opd.delta)
    /\ dcall.fired => dcall.atStart = dcall.val
    /\ ~dcall.fired => opd.lastVal = dcall.before

\* gauge i has nothing in flight: no Add under way, no runner, no timer
GaugeQuiescent(i) ==
  /\ \A t \in DOMAIN adders : adders[t].pc = "idle"
  /\ \A r \in pubRunners : r.g # i
  /\ timerHandlers[i] = 0
  /\ ~gauges[i].oncePerDur.timer.armed
  /\ gauges[i].oncePerDur.pending = Nil

\* C9: for a gauge with delta threshold 0 and an attached channel, once the
\* concurrent non-zero Adds have returned and the throttle has drained, the
\* last value published for the gauge equals Val().
NoUpdateLost ==
  \A i \in DOMAIN gauges :
    (gauges[i].oncePerDelta.delta = Zero64 /\ i \in touched
       /\ GaugeQuiescent(i))
      => lastPub[i] = <<StringWithVal(gauges[i], gauges[i].val, FALSE)>>

\* the names a poll of scope S must report: the gauges registered when the
\* dump ran whose scope is empty or S, in registration order
VisibleNames(S, ng) ==
  LET Vis(k) == gauges[k].raddr = "" \/ gauges[k].raddr = S
      F[k \in 0..ng] ==
        IF k = 0 THEN <<>>
        ELSE IF Vis(k) THEN Append(F[k - 1], gauges[k].name) ELSE F[k - 1]
  IN F[ng]

PollOver(c) == chans[c].pc \in {"recv", "detach", "close", "done", "panic"}

\* the dump a poll published is right: one newline-ended line per visible
\* gauge, in registration order, with the gauge's value
DumpRight(c) ==
  LET d == chans[c].dump
      names == VisibleNames(chans[c].scope, chans[c].ng)
  IN /\ Len(d) = Len(names)
     /\ \A k \in DOMAIN d : d[k].name = names[k] /\ d[k].nl
     /\ chans[c].adds = nAdd =>
          \A k \in DOMAIN d : \E i \in DOMAIN gauges :
            gauges[i].name = d[k].name /\ gauges[i].val = d[k].val

\* C10: every POLL received on a channel of scope S results in exactly one
\* publication to scope S, carrying one line per gauge visible to S.
PollPublishesOnce ==
  \A c \in DOMAIN chans :
    PollOver(c) =>
      /\ chans[c].dumps = chans[c].polls
      /\ chans[c].polls > 0 => DumpRight(c)

\* C10 without the crash: a poll that was answered made one publication
\* with the right lines.
AnsweredPollRight ==
  \A c \in DOMAIN chans :
    (PollOver(c) /\ chans[c].pc # "panic") =>
      /\ chans[c].dumps = chans[c].polls
      /\ chans[c].polls > 0 => DumpRight(c)

(* ------------------------------ routing -------------------------------- *)
\* channel c is currently registered in the channel map
Registered(c) == \E s \in DOMAIN edges : edges[s] = c

\* channel c is the one a publication for scope raddr must reach
Receives(c, raddr) ==
  IF raddr = "" THEN Registered(c)
  ELSE raddr \in DOMAIN edges /\ edges[raddr] = c

\* runner r performs its organic publication in this step
Publishes(r) ==
  /\ r.pc = "exec"
  /\ r \notin pubRunners'
  /\ [r EXCEPT !.pc = "loop"] \in pubRunners'

\* C11: an organic publication of a gauge with non-empty scope S is delivered
\* to the channel currently registered under S and to no other channel; one
\* of a gauge with empty scope is delivered to every registered channel.
OrganicRouting ==
  [][\A r \in pubRunners :
       Publishes(r) =>
         \A c \in DOMAIN chans :
           chans'[c].got =
             chans[c].got + (IF Receives(c, gauges[r.g].raddr) THEN 1 ELSE 0)
    ]_vars

\* a gauge of scope "B" was published to B's channel while a channel is
\* registered under "A" that received nothing
ScopedDelivered ==
  \E i \in DOMAIN gauges : \E a, b \in DOMAIN chans :
    /\ gauges[i].raddr = "B"
    /\ lastPub[i] # Nil /\ ~lastPub[i][1].nl
    /\ chans[a].scope = "A" /\ Registered(a) /\ chans[a].got = 0
    /\ chans[b].scope = "B" /\ Registered(b) /\ chans[b].got > 0

(* ------------------------------- detach -------------------------------- *)
\* no channel was attached under c's scope after c
LatestUnder(c) ==
  \A k \in DOMAIN chans : chans[k].scope = chans[c].scope => k <= c

\* c's receive loop has run its deferred detach
Detached(c) == chans[c].pc \in {"close", "done"}

\* C12: detach is identity-checked: the channel attached last under a scope
\* stays registered under it until its own receive loop detaches it, whatever
\* the loops of the channels it superseded do.
DetachKeepsNewer ==
  \A c \in DOMAIN chans :
    (LatestUnder(c) /\ ~Detached(c)) =>
      /\ chans[c].scope \in DOMAIN edges
      /\ edges[chans[c].scope] = c

\* e1 and then e2 were attached under one scope, e1's loop has exited and
\* detached, e2 is registered
SupersededExited ==
  \E a, b \in DOMAIN chans :
    /\ a < b /\ chans[a].scope = chans[b].scope
    /\ chans[a].pc = "done"
    /\ ~Detached(b)
    /\ chans[b].scope \in DOMAIN edges /\ edges[chans[b].scope] = b

\* C13: after a channel is closed and detached, no publish to its former
\* scope panics: no receive loop of the scope panics in its poll dump.
NoPanicAfterDetach ==
  \A c \in DOMAIN chans :
    chans[c].pc = "panic" =>
      ~\E k \in DOMAIN chans :
         chans[k].scope = chans[c].scope /\ chans[k].closed /\ Detached(k)

(* ------------------------------ lifecycle ------------------------------ *)
\* the steps of channel c's servePoller goroutine that wait for nothing
\* from outside
LoopProgress(c) ==
  \/ DumpLock(c) \/ DumpVal(c) \/ DumpThrottleReset(c) \/ DumpDeltaReset(c)
  \/ PollPublish(c) \/ LoopExit(c) \/ detach(c) \/ EdgeClose(c)

\* the scheduler runs every goroutine that can take a step
FairMetrics ==
  /\ SpecMetrics
  /\ \A c \in 1..MaxChans : WF_vars(c \in DOMAIN chans /\ LoopProgress(c))

\* c's receive loop has exited: the channel is closed and out of the map
Exited(c) == chans[c].pc = "done" /\ chans[c].closed /\ ~Registered(c)

\* C14: whenever an attached channel closes or Close() is called, the
\* channel's receive loop eventually exits, and then the channel is closed
\* and no longer in the channel map.
LoopsExit ==
  \A c \in 1..MaxChans :
    (c \in DOMAIN chans /\ (chans[c].closed \/ cancelled)) ~>
      (c \in DOMAIN chans /\ Exited(c))

\* C14 on the runs in which no poll dump panics
LoopsExitUnlessPanic == ([]~panicked) => LoopsExit

\* C14, the state half: a loop that has exited left its channel closed and
\* out of the map
ExitedLoopsLeaveNothing ==
  \A c \in DOMAIN chans : chans[c].pc = "done" => Exited(c)

(* ------------------------- InFlightMiddleware -------------------------- *)
MaxReqs == 2

Requests == 1..MaxReqs

NewRequest == [pc |-> "new", raised |-> FALSE]

\* the wrapper's gauge.Inc(): Add(1) up to the atomic add
InFlightInc(t) ==
  /\ ~panicked
  /\ reqs[t].pc = "new"
  /\ adders[t].pc = "idle"
  /\ LET val == Add64(gauges[1].val, I64(1))
     IN /\ gauges' = [gauges EXCEPT ![1].val = val]
        /\ adders' = [adders EXCEPT
                        ![t] = [pc |-> "gate", g |-> 1, val |-> val,
                                id |-> nAdd + 1]]
  /\ nAdd' = nAdd + 1
  /\ touched' = touched \cup {1}
  /\ reqs' = [reqs EXCEPT ![t].pc = "inc"]
  /\ UNCHANGED <<now, tvars, dvars, held, accept, edges, chans, gaugesMu,
                 cancelled, panicked, timerHandlers, pubRunners, nMsg,
                 lastPub, nEnv>>

\* Inc has returned: next.ServeHTTP(w, r) is entered
InFlightServe(t) ==
  /\ ~panicked
  /\ reqs[t].pc = "inc"
  /\ adders[t].pc = "idle"
  /\ reqs' = [reqs EXCEPT ![t].pc = "serving"]
  /\ UNCHANGED <<now, tvars, dvars, held, accept, mvars>>

\* the inner handler panics before the deferred call is run: what the
\* wrapper would do with gauge.Dec() called after ServeHTTP instead
HandlerEnds_NoDefer(t, raised) ==
  /\ ~panicked
  /\ reqs[t].pc = "serving"
  /\ reqs' = [reqs EXCEPT ![t].pc = IF raised THEN "done" ELSE "deferred",
                          ![t].raised = raised]
  /\ UNCHANGED <<now, tvars, dvars, held, accept, mvars>>

\* the inner handler returns or panics: the deferred gauge.Dec() is due
HandlerEnds(t, raised) ==
  /\ ~panicked
  /\ reqs[t].pc = "serving"
  /\ reqs' = [reqs EXCEPT ![t].pc = "deferred", ![t].raised = raised]
  /\ UNCHANGED <<now, tvars, dvars, held, accept, mvars>>

\* the deferred gauge.Dec(): Add(-1) up to the atomic add
InFlightDec(t) ==
  /\ ~panicked
  /\ reqs[t].pc = "deferred"
  /\ adders[t].pc = "idle"
  /\ LET val == Add64(gauges[1].val, I64(-1))
     IN /\ gauges' = [gauges EXCEPT ![1].val = val]
        /\ adders' = [adders EXCEPT
                        ![t] = [pc |-> "gate", g |-> 1, val |-> val,
                                id |-> nAdd + 1]]
  /\ nAdd' = nAdd + 1
  /\ touched' = touched \cup {1}
  /\ reqs' = [reqs EXCEPT ![t].pc = "dec"]
  /\ UNCHANGED <<now, tvars, dvars, held, accept, edges, chans, gaugesMu,
                 cancelled, panicked, timerHandlers, pubRunners, nMsg,
                 lastPub, nEnv>>

\* Dec has returned: the wrapper returns, or the handler's panic goes on
InFlightDone(t) ==
  /\ ~panicked
  /\ reqs[t].pc = "dec"
  /\ adders[t].pc = "idle"
  /\ reqs' = [reqs EXCEPT ![t].pc = "done"]
  /\ UNCHANGED <<now, tvars, dvars, held, accept, mvars>>

\* the gauge of the wrapper as the main program creates it, with window 0,
\* threshold 0 and no scope, starting at 0, before any channel attaches
InitInFlight ==
  /\ now = MaxDur
  /\ InitThrottleIdle
  /\ InitDeltaIdle
  /\ gauges = <<NewGaugeRec(Names[1], 0, Zero64, "")>>
  /\ edges = NoEdges
  /\ chans = <<>>
  /\ gaugesMu = 0
  /\ cancelled = FALSE
  /\ panicked = FALSE
  /\ adders = [t \in Requests |-> IdleAdder]
  /\ timerHandlers = <<0>>
  /\ pubRunners = {}
  /\ nAdd = 0
  /\ nMsg = 0
  /\ lastPub = <<Nil>>
  /\ touched = {}
  /\ nEnv = 0
  /\ reqs = [t \in Requests |-> NewRequest]
  /\ held = {}
  /\ accept = NoAccept

InFlightStep ==
  \/ \E t \in Requests : InFlightInc(t)
  \/ \E t \in Requests : InFlightServe(t)
  \/ \E t \in Requests : \E raised \in BOOLEAN : HandlerEnds(t, raised)
  \/ \E t \in Requests : InFlightDec(t)
  \/ \E t \in Requests : InFlightDone(t)
  \/ \E t \in Requests : AddGate(t)
  \/ \E t \in Requests : AddThrottle(t)
  \/ \E r \in pubRunners : PubBegin(r)
  \/ \E r \in pubRunners : GaugePub(r)
  \/ \E r \in pubRunners : GaugeRunner(r)

\* with window 0 the throttle never defers, so no timer is ever armed
SpecInFlight == InitInFlight /\ [][InFlightStep]_vars

\* the requests inside the inner handler
InHandler == {t \in DOMAIN reqs : reqs[t].pc = "serving"}

\* C15: with no request between its increment and its handler call, Val()
\* equals the number of requests whose inner handler has been entered and
\* has not yet returned or raised; Val() is 0 once all have completed.
InFlightCount ==
  /\ (\A t \in DOMAIN reqs : reqs[t].pc # "inc")
       => gauges[1].val = I64(Cardinality(InHandler))
  /\ (\A t \in DOMAIN reqs : reqs[t].pc = "done") => gauges[1].val = Zero64

\* C15 amended: as InFlightCount, in the states with no request between
\* its increment and its handler call and none between the end of its
\* handler and its decrement.
InFlightCountSettled ==
  /\ (\A t \in DOMAIN reqs : reqs[t].pc \notin {"inc", "deferred"})
       => gauges[1].val = I64(Cardinality(InHandler))
  /\ (\A t \in DOMAIN reqs : reqs[t].pc = "done") => gauges[1].val = Zero64

\* one request is inside its handler after another one, whose handler
\* raised, has completed
OneServingOneRaised ==
  \E t, u \in DOMAIN reqs :
    /\ reqs[t].pc = "serving"
    /\ reqs[u].pc = "done" /\ reqs[u].raised
    /\ gauges[1].val = I64(1)

(* ------------------------------- locking ------------------------------- *)
\* C16: no registry or gate lock (channel-map mutex, gauge-list mutex,
\* delta-gate mutex, throttle mutex) is held by a thread while it executes a
\* channel Pub call or a gate or throttle callback.
NoLockAcrossCall == held = {}

(* --------------------------- order of the gates ------------------------ *)
\* the value thread t carries differs from the gate's last allowed value by
\* less than the gauge's threshold
BelowThreshold(t) ==
  LET g == gauges[adders[t].g]
  IN ULess64(AbsDiff(adders[t].val, g.oncePerDelta.lastVal),
             g.oncePerDelta.delta)

\* C17: Add evaluates the delta gate first and the throttle second: an Add
\* whose new value is below the threshold leaves the throttle state
\* unchanged and causes no publication; Add(0) changes neither the value nor
\* any gate state.
DeltaGateFirst ==
  [][/\ \A t \in DOMAIN adders :
          (adders[t].pc = "gate" /\ adders'[t].pc # "gate"
             /\ BelowThreshold(t))
            => /\ adders'[t].pc = "idle"
               /\ gauges'[adders[t].g].oncePerDur
                    = gauges[adders[t].g].oncePerDur
               /\ pubRunners' = pubRunners
               /\ timerHandlers' = timerHandlers
               /\ chans' = chans /\ lastPub' = lastPub
     /\ (nAdd' = nAdd + 1
           /\ \A i \in DOMAIN gauges : gauges'[i].val = gauges[i].val)
          => /\ gauges' = gauges /\ adders' = adders
             /\ pubRunners' = pubRunners /\ chans' = chans
    ]_vars

\* an Add below the threshold of 2 has returned: the value moved, the
\* throttle was never offered anything and nothing was published
GateHeldBack ==
  \E i \in DOMAIN gauges :
    /\ gauges[i].oncePerDelta.delta = I64(2)
    /\ gauges[i].val = I64(-1)
    /\ \A t \in DOMAIN adders : adders[t].pc = "idle"
    /\ gauges[i].oncePerDur = NewOncePerDur(gauges[i].oncePerDur.dur)
    /\ pubRunners = {} /\ lastPub[i] = Nil

(* ------------------------------ poll resets ---------------------------- *)
\* channel c's poll dump resets a gate of the gauge it is at in this step
DumpResets(c) ==
  /\ chans[c].pc \in {"treset", "dreset"}
  /\ chans'[c].pc # chans[c].pc

\* C18: a poll from scope A resets only the gauges it dumped: a gauge scoped
\* to another, non-empty scope keeps its delta gate's last allowed value and
\* its throttle state (pending callback, timer, lastRunTime).
PollResetsOnlyDumped ==
  [][\A c \in DOMAIN chans :
       DumpResets(c) =>
         \A i \in DOMAIN gauges :
           ~Dumped(gauges[i], chans[c].scope) =>
             /\ gauges'[i].oncePerDelta = gauges[i].oncePerDelta
             /\ gauges'[i].oncePerDur = gauges[i].oncePerDur
    ]_vars

\* C18, its last clause alone: a publication pending for another scope's
\* channel is not discarded by the poll.
PollKeepsOtherPending ==
  [][\A c \in DOMAIN chans :
       DumpResets(c) =>
         \A i \in DOMAIN gauges :
           ~Dumped(gauges[i], chans[c].scope) =>
             gauges'[i].oncePerDur.pending = gauges[i].oncePerDur.pending
    ]_vars

(* --------------------------- poll racing an Add ------------------------ *)
\* one Add on gauge i and one poll on channel c, the only channel, have
\* both finished and the gauge's throttle has drained
OneAddOnePollDone(i, c) ==
  /\ Len(chans) = 1 /\ Registered(c) /\ ~chans[c].closed /\ ~cancelled
  /\ chans[c].pc = "recv"
  /\ chans[c].polls = 1 /\ chans[c].dumps = 1 /\ i <= chans[c].ng
  /\ nAdd = 1 /\ i \in touched
  /\ GaugeQuiescent(i)

\* C19: for a gauge with delta threshold 0 visible to scope S and mutated by
\* a single thread, after one Add and one poll from S have finished and the
\* throttle has drained, the most recent value delivered to S's channel for
\* the gauge, by the dump or by an organic publication, equals Val().
PollRaceLosesNothing ==
  \A i \in DOMAIN gauges : \A c \in DOMAIN chans :
    (/\ gauges[i].oncePerDelta.delta = Zero64
     /\ Dumped(gauges[i], chans[c].scope)
     /\ OneAddOnePollDone(i, c))
      => lastPub[i] # Nil /\ lastPub[i][1].val = gauges[i].val

(* --------------------------- metricsListener --------------------------- *)
\* metricsListener.Accept up to the call of the gauge factory: the wrapped
\* Accept returns (conn, err), then conn.RemoteAddr() is called whatever err
\* is; with no connection that is a method call on a nil interface, which
\* panics; otherwise mln.connGauges(raddr.String()) is entered
ListenerAccept(raddr, failed) ==
  /\ ~panicked
  /\ nEnv < MaxEnv
  /\ nEnv' = nEnv + 1
  /\ accept.pc = "idle"
  /\ failed \/ Len(gauges) + 2 <= MaxGauges
  /\ IF failed
     THEN /\ accept' = [made |-> TRUE, failed |-> TRUE, panicked |-> TRUE,
                        factory |-> 0, before |-> Len(gauges),
                        pc |-> "panic", raddr |-> ""]
          /\ panicked' = TRUE
     ELSE /\ accept' = [made |-> TRUE, failed |-> FALSE, panicked |-> FALSE,
                        factory |-> 1, before |-> Len(gauges),
                        pc |-> "sent", raddr |-> raddr]
          /\ UNCHANGED panicked
  /\ UNCHANGED <<now, tvars, dvars, reqs, held, gauges, edges, chans,
                 gaugesMu, cancelled, adders, timerHandlers, pubRunners,
                 nAdd, nMsg, lastPub, touched>>

\* the gauge factory of the main program: one NewGauge for the bytes sent
\* on this connection (with a threshold) and one for the bytes received
\* (threshold 0), both scoped to the connection; then Accept returns
ConnGauges ==
  /\ ~panicked
  /\ accept.pc \in {"sent", "received"}
  /\ gaugesMu = 0
  /\ gauges' = Append(gauges,
                      NewGaugeRec(Names[Len(gauges) + 1], 1,
                                  IF accept.pc = "sent" THEN I64(2)
                                  ELSE Zero64,
                                  accept.raddr))
  /\ timerHandlers' = Append(timerHandlers, 0)
  /\ lastPub' = Append(lastPub, Nil)
  /\ accept' = [accept EXCEPT
                  !.pc = IF accept.pc = "sent" THEN "received" ELSE "idle"]
  /\ UNCHANGED <<now, tvars, dvars, reqs, held, edges, chans, gaugesMu,
                 cancelled, panicked, adders, pubRunners, nAdd, nMsg,
                 touched, nEnv>>

\* the registry of a server that listens through SentReceivedMiddleware;
\* the connections' Read and Write call Add on the gauges
InitListener ==
  /\ now = MaxDur
  /\ InitThrottleIdle
  /\ InitDeltaIdle
  /\ gauges = <<>>
  /\ edges = NoEdges
  /\ chans = <<>>
  /\ gaugesMu = 0
  /\ cancelled = FALSE
  /\ panicked = FALSE
  /\ adders = [t \in Threads |-> IdleAdder]
  /\ timerHandlers = <<>>
  /\ pubRunners = {}
  /\ nAdd = 0
  /\ nMsg = 0
  /\ lastPub = <<>>
  /\ touched = {}
  /\ nEnv = 0
  /\ InitWrappersIdle

ListenerStep ==
  \/ \E raddr \in Scopes : \E failed \in BOOLEAN :
       ListenerAccept(raddr, failed)
  \/ ConnGauges

SpecListener == InitListener /\ [][ListenerStep \/ GaugeStep]_vars

\* C20: when the wrapped listener's Accept fails, the wrapper returns the
\* error without panicking, without invoking the per-connection gauge
\* factory and without registering any new gauge.
AcceptFailureReturned ==
  (accept.made /\ accept.failed) =>
    /\ ~accept.panicked
    /\ accept.factory = 0
    /\ Len(gauges) = accept.before

====
